---- MODULE Spec2Model ----
(***************************************************************************)
(* Directed-graph algorithms of package graph (soniakeys): Topological,    *)
(* TopologicalKahn, Tarjan, TarjanForward, TarjanCondensation,             *)
(* BreadthFirstTraverse, Cyclic and FromList, each as a state machine over *)
(* the locals of the Go function.  Recursive closures (df, sc) run on an   *)
(* explicit call stack of frames [n, k]: the node of the activation and    *)
(* the 1-based position of the arc its range loop is at.                   *)
(*                                                                         *)
(* Go slices of fixed length (ordering, index, lowlink, rem, cond, cd) are *)
(* functions over 0..N-1 (paths holds the From member of each PathEnd);    *)
(* slices grown by append (S, L, r, c, tos, frontier, next) are sequences. *)
(* A nil slice is the empty sequence.                                      *)
(***************************************************************************)
EXTENDS FiniteSets, Integers, Sequences, TLC

\* Largest graph order and largest total number of arcs of an input graph.
MaxN == 3
MaxArcs == 4

VARIABLES
    g,            \* the receiver: node -> sequence of arc targets
    pc,           \* position in the running function
    stack,        \* activations of the recursive closure, innermost last
    loopN,        \* the range variable n of the function's outer for loop
    \* Topological
    ordering, i, temp, perm, cycleFound, cycleStart,
    cycle,        \* Topological and TopologicalKahn
    ret,          \* the values returned: [ordering, cycle]
    \* TopologicalKahn
    tr, L, rem,
    S,            \* TopologicalKahn and Tarjan
    \* Tarjan
    caller,       \* who calls Tarjan: its own caller, or TarjanCondensation
    indexed, stacked, index, lowlink, x,
    r,            \* the components emit was called with, in call order
    declined,     \* emit has returned false
    \* TarjanForward, TarjanCondensation
    scc, cd, cond, cn,
    \* BreadthFirstTraverse
    start,        \* the argument start
    v, frontier, next,
    fpos, apos,   \* 1-based positions of the two range loops
    visits,       \* the arguments visit was called with, in call order
    \* Cyclic (which has its own temp and perm)
    cyclic, fr, to,
    \* FromList
    paths,        \* node -> paths[node].From
    flRet         \* the values returned: [nil, Paths, n]

vars == <<g, pc, stack, loopN,
          ordering, i, temp, perm, cycleFound, cycleStart, cycle, ret,
          tr, L, rem, S,
          caller, indexed, stacked, index, lowlink, x, r, declined,
          scc, cd, cond, cn,
          start, v, frontier, next, fpos, apos, visits,
          cyclic, fr, to, paths, flRet>>

topoVars == <<ordering, i, temp, perm, cycleFound, cycleStart>>
kahnVars == <<tr, L, rem>>
tarjanVars == <<caller, indexed, stacked, index, lowlink, x, r, declined>>
condVars == <<scc, cd, cond, cn>>
bfsVars == <<start, v, frontier, next, fpos, apos, visits>>
cyclicVars == <<cyclic, fr, to>>
fromVars == <<paths, flRet>>

\* The locals of the functions that are not running keep these values.
TopoIdle ==
    /\ ordering = <<>> /\ i = 0 /\ temp = {} /\ perm = {}
    /\ cycleFound = FALSE /\ cycleStart = 0
KahnIdle == tr = <<>> /\ L = <<>> /\ rem = <<>>
TarjanIdle ==
    /\ caller = "" /\ indexed = {} /\ stacked = {} /\ index = <<>>
    /\ lowlink = <<>> /\ x = 0 /\ r = <<>> /\ declined = FALSE
CondIdle == scc = <<>> /\ cd = <<>> /\ cond = <<>> /\ cn = 0
BfsIdle ==
    /\ start = 0 /\ v = {} /\ frontier = <<>> /\ next = <<>>
    /\ fpos = 0 /\ apos = 0 /\ visits = <<>>
CyclicIdle == cyclic = FALSE /\ fr = 0 /\ to = 0
FromIdle == paths = <<>> /\ flRet = [nil |-> TRUE, Paths |-> <<>>, n |-> 0]

----------------------------------------------------------------------------
\* Input graphs

N == Cardinality(DOMAIN g)
Nodes == DOMAIN g

NodesOf(n) == 0..(n - 1)

\* The source nodes of k arcs listed node by node.
NonDecreasing(n, k) ==
    {f \in [1..k -> NodesOf(n)] : \A a \in 1..k, b \in 1..k : a < b => f[a] <= f[b]}

\* The targets of the arcs in tos whose source in frs is u, in list order.
RECURSIVE ArcList(_, _, _, _)
ArcList(frs, tos, u, j) ==
    IF j > Len(tos) THEN <<>>
    ELSE (IF frs[j] = u THEN <<tos[j]>> ELSE <<>>) \o ArcList(frs, tos, u, j + 1)

\* g is an AdjacencyList value: n nodes, at most MaxArcs arcs, every target
\* in [0, n) (BoundsOk); loops and parallel arcs included.
GraphInit ==
    \E n \in 0..MaxN, k \in 0..MaxArcs :
        \E frs \in NonDecreasing(n, k), tos \in [1..k -> NodesOf(n)] :
            g = [u \in NodesOf(n) |-> ArcList(frs, tos, u, 1)]

----------------------------------------------------------------------------
\* Graph theory the claims are stated in (not part of the program)

HasArc(u, w) == \E j \in 1..Len(g[u]) : g[u][j] = w

Succ(set) == {w \in Nodes : \E u \in set : HasArc(u, w)}

RECURSIVE Closure(_, _)
Closure(set, steps) ==
    IF steps = 0 THEN set ELSE Closure(set \cup Succ(set), steps - 1)

\* w is reached from u by a path of one or more arcs.
Reaches(u, w) == w \in Closure(Succ({u}), N)

HasCycle == \E u \in Nodes : Reaches(u, u)

\* c is the path of a cycle of g: consecutive nodes joined by arcs, the
\* last joined to the first.
IsCyclePath(c) ==
    /\ Len(c) > 0
    /\ \A j \in 1..Len(c) : c[j] \in Nodes
    /\ \A j \in 1..(Len(c) - 1) : HasArc(c[j], c[j + 1])
    /\ HasArc(c[Len(c)], c[1])

\* s lists every node exactly once.
IsPermutation(s) ==
    /\ Len(s) = N
    /\ \A u \in Nodes : \E j \in 1..Len(s) : s[j] = u

PositionIn(s, u) == CHOOSE j \in 1..Len(s) : s[j] = u

IsTopologicalOrder(s) ==
    /\ IsPermutation(s)
    /\ \A u \in Nodes, w \in Nodes :
          HasArc(u, w) => PositionIn(s, u) < PositionIn(s, w)

\* The slice s[lo:] of a fixed-length slice, as a sequence.
SliceFrom(s, lo) == [j \in 1..(N - lo) |-> s[lo + j - 1]]

Top == stack[Len(stack)]
Pop == SubSeq(stack, 1, Len(stack) - 1)
Frame(n) == [n |-> n, k |-> 1]
\* The caller's range loop moves to its next arc.
PopAndStep ==
    IF Len(stack) = 1 THEN <<>>
    ELSE [Pop EXCEPT ![Len(stack) - 1].k = @ + 1]

----------------------------------------------------------------------------
\* Topological (DFS)

TopoInit ==
    /\ GraphInit
    /\ pc = "topo_loop"
    /\ stack = <<>>
    /\ loopN = 0
    /\ ordering = [u \in Nodes |-> 0]
    /\ i = N
    /\ temp = {}
    /\ perm = {}
    /\ cycleFound = FALSE
    /\ cycleStart = 0
    /\ cycle = <<>>
    /\ ret = [ordering |-> <<>>, cycle |-> <<>>]
    /\ S = <<>>
    /\ KahnIdle /\ TarjanIdle /\ CondIdle /\ BfsIdle
    /\ CyclicIdle /\ FromIdle

\* df returns to its caller with cycleFound unset: an enclosing df goes on
\* to its next arc, the outer loop to its next node.
TopoReturn ==
    /\ stack' = PopAndStep
    /\ IF Len(stack) <= 1
          THEN pc' = "topo_loop" /\ loopN' = loopN + 1
          ELSE pc' = "topo_df" /\ UNCHANGED loopN

\* df(n) up to its range loop: the switch and the temp mark.  Called with
\* the caller's frame (if any) on top of the stack.
TopoCall(n) ==
    IF n \in temp THEN
        /\ cycleFound' = TRUE
        /\ cycleStart' = n
        /\ pc' = "topo_unwind"
        /\ UNCHANGED <<stack, loopN, temp>>
    ELSE IF n \in perm THEN
        /\ stack' = IF stack = <<>> THEN stack
                    ELSE [stack EXCEPT ![Len(stack)].k = @ + 1]
        /\ IF stack = <<>>
              THEN pc' = "topo_loop" /\ loopN' = loopN + 1
              ELSE pc' = "topo_df" /\ UNCHANGED loopN
        /\ UNCHANGED <<cycleFound, cycleStart, temp>>
    ELSE
        /\ temp' = temp \cup {n}
        /\ stack' = Append(stack, Frame(n))
        /\ pc' = "topo_df"
        /\ UNCHANGED <<cycleFound, cycleStart, loopN>>

\* The outer loop over the nodes, and the final return.
TopoLoop ==
    /\ pc = "topo_loop"
    /\ IF loopN >= N THEN
          /\ ret' = [ordering |-> SliceFrom(ordering, 0), cycle |-> <<>>]
          /\ pc' = "topo_done"
          /\ UNCHANGED <<stack, loopN, temp, cycleFound, cycleStart>>
       ELSE IF loopN \in perm THEN
          /\ loopN' = loopN + 1
          /\ UNCHANGED <<pc, stack, temp, cycleFound, cycleStart, ret>>
       ELSE
          /\ TopoCall(loopN)
          /\ UNCHANGED ret
    /\ UNCHANGED <<g, cyclicVars, fromVars, ordering, i, perm, cycle, S, kahnVars, tarjanVars, condVars, bfsVars>>

\* One iteration of df's range loop: df(nb.To).
TopoArc ==
    /\ pc = "topo_df"
    /\ Top.k <= Len(g[Top.n])
    /\ TopoCall(g[Top.n][Top.k])
    /\ UNCHANGED <<g, cyclicVars, fromVars, ordering, i, perm, cycle, ret, S, kahnVars, tarjanVars, condVars, bfsVars>>

\* i-- ; ordering[i] = n: the index the finished node is stored at.
OrderingSlotBack == N - i
OrderingSlot == i - 1

\* df's range loop is exhausted: the node is done and takes its place at
\* the front of the ordering.
TopoFinish ==
    /\ pc = "topo_df"
    /\ Top.k > Len(g[Top.n])
    /\ temp' = temp \ {Top.n}
    /\ perm' = perm \cup {Top.n}
    /\ i' = i - 1
    /\ ordering' = [ordering EXCEPT ![OrderingSlot] = Top.n]
    /\ TopoReturn
    /\ UNCHANGED <<g, cyclicVars, fromVars, cycleFound, cycleStart, cycle, ret, S, kahnVars, tarjanVars, condVars, bfsVars>>

\* if n == cycleStart { cycleStart = -1 }: the cycle is closed at its
\* first node.
CycleStartNeverClosed(n) == cycleStart
CycleStartAfter(n) == IF n = cycleStart THEN -1 ELSE cycleStart

\* x := len(ordering) - 1 - len(cycle)
CycleSlot == N - 1 - Len(cycle)

\* return nil, cycle
CycleReturnWithOrdering == [ordering |-> SliceFrom(ordering, 0), cycle |-> cycle]
CycleReturn == [ordering |-> <<>>, cycle |-> cycle]

\* df(nb.To) came back with cycleFound set: the activation adds its node to
\* the cycle while cycleStart is open and returns; the outer loop returns
\* nil and the cycle.  cycle = ordering[x:] is a slice of ordering's array:
\* nothing is written at or after x while it is held.
TopoUnwind ==
    /\ pc = "topo_unwind"
    /\ IF stack = <<>> THEN
          /\ ret' = CycleReturn
          /\ pc' = "topo_done"
          /\ UNCHANGED <<stack, ordering, cycle, cycleStart>>
       ELSE
          /\ IF cycleStart >= 0 THEN
                /\ ordering' = [ordering EXCEPT ![CycleSlot] = Top.n]
                /\ cycle' = SliceFrom(ordering', CycleSlot)
                /\ cycleStart' = CycleStartAfter(Top.n)
             ELSE UNCHANGED <<ordering, cycle, cycleStart>>
          /\ stack' = Pop
          /\ UNCHANGED <<pc, ret>>
    /\ UNCHANGED <<g, cyclicVars, fromVars, loopN, i, temp, perm, cycleFound, S, kahnVars, tarjanVars, condVars, bfsVars>>

TopoNext == TopoLoop \/ TopoArc \/ TopoFinish \/ TopoUnwind

SpecTopological == TopoInit /\ [][TopoNext]_vars

\* C1: on an acyclic graph Topological returns an ordering that lists every
\* node exactly once with the source of every arc before its target, and an
\* empty cycle.
C1_TopologicalOrdersAcyclic ==
    (pc = "topo_done" /\ ~HasCycle) =>
        /\ IsTopologicalOrder(ret.ordering)
        /\ ret.cycle = <<>>

\* An acyclic graph of three nodes whose arcs run against the node numbers
\* has been ordered.
C1_Witness ==
    /\ pc = "topo_done" /\ ~HasCycle
    /\ N = 3 /\ HasArc(2, 1) /\ HasArc(1, 0)
    /\ ret.ordering = <<2, 1, 0>>

\* C2 as stated: for every graph, the empty graph included, exactly one of
\* ordering (then of length N) and cycle is returned non-empty.
C2_ExactlyOneNonEmpty ==
    pc = "topo_done" =>
        \/ (ret.ordering # <<>> /\ Len(ret.ordering) = N /\ ret.cycle = <<>>)
        \/ (ret.cycle # <<>> /\ ret.ordering = <<>>)

\* C2 amended: for every graph of order N >= 1 exactly one of ordering (then
\* of length N) and cycle is returned non-empty; for the empty graph both
\* are returned empty.
C2_ExactlyOneNonEmptyUnlessEmptyGraph ==
    pc = "topo_done" =>
        IF N = 0
        THEN ret.ordering = <<>> /\ ret.cycle = <<>>
        ELSE \/ (ret.ordering # <<>> /\ Len(ret.ordering) = N /\ ret.cycle = <<>>)
             \/ (ret.cycle # <<>> /\ ret.ordering = <<>>)

\* A cycle has been returned for a graph in which some nodes were already
\* placed in the ordering when the cycle was found.
C2_Witness ==
    /\ pc = "topo_done" /\ N > 0
    /\ ret.cycle # <<>> /\ ret.ordering = <<>>
    /\ perm # {}

\* C3: on a graph with a cycle (self-loops included) Topological returns a
\* non-empty cycle whose consecutive nodes are joined by arcs of the graph,
\* the last node joined to the first.
C3_TopologicalCycleIsReal ==
    (pc = "topo_done" /\ HasCycle) => IsCyclePath(ret.cycle)

\* A cycle of two nodes that does not start at the root of the search has
\* been returned.
C3_Witness ==
    /\ pc = "topo_done" /\ HasCycle
    /\ N = 3 /\ ret.cycle = <<2, 1>>
    /\ HasArc(0, 2)

----------------------------------------------------------------------------
\* TopologicalKahn

\* The sources of the arcs into w from nodes u and above, node by node.
RECURSIVE ArcsInto(_, _)
ArcsInto(w, u) ==
    IF u >= N THEN <<>>
    ELSE [j \in 1..Cardinality({a \in 1..Len(g[u]) : g[u][a] = w}) |-> u]
         \o ArcsInto(w, u + 1)

\* The argument the caller passes for tr: the graph with every arc reversed.
Transpose == [w \in Nodes |-> ArcsInto(w, 0)]

KahnInit ==
    /\ GraphInit
    /\ tr = Transpose
    /\ pc = "kahn_scan"
    /\ stack = <<>>
    /\ loopN = 0
    /\ L = <<>>
    /\ S = <<>>
    /\ rem = [u \in Nodes |-> 0]
    /\ cycle = <<>>
    /\ ret = [ordering |-> <<>>, cycle |-> <<>>]
    /\ TopoIdle /\ TarjanIdle /\ CondIdle /\ BfsIdle
    /\ CyclicIdle /\ FromIdle

\* for n, fr := range tr.AdjacencyList: the nodes without incoming arcs go
\* to S, the others get their in-degree in rem.
KahnScan ==
    /\ pc = "kahn_scan"
    /\ IF loopN < N THEN
          /\ IF Len(tr[loopN]) = 0
                THEN S' = Append(S, loopN) /\ UNCHANGED rem
                ELSE rem' = [rem EXCEPT ![loopN] = Len(tr[loopN])] /\ UNCHANGED S
          /\ loopN' = loopN + 1
          /\ UNCHANGED pc
       ELSE
          /\ pc' = "kahn_main"
          /\ UNCHANGED <<S, rem, loopN>>
    /\ UNCHANGED <<g, cyclicVars, fromVars, tr, stack, L, cycle, ret, topoVars, tarjanVars, condVars, bfsVars>>

\* for len(S) > 0: remove the last node of S and add it to the tail of L.
KahnRemove ==
    /\ pc = "kahn_main"
    /\ IF Len(S) > 0 THEN
          /\ S' = SubSeq(S, 1, Len(S) - 1)
          /\ L' = Append(L, S[Len(S)])
          /\ stack' = <<Frame(S[Len(S)])>>
          /\ pc' = "kahn_arcs"
          /\ UNCHANGED loopN
       ELSE
          /\ pc' = "kahn_recover"
          /\ loopN' = 0
          /\ UNCHANGED <<S, L, stack>>
    /\ UNCHANGED <<g, cyclicVars, fromVars, tr, rem, cycle, ret, topoVars, tarjanVars, condVars, bfsVars>>

\* if rem[m.To] == 0 after the decrement: "m has no other incoming edges".
AdmitsOnAnyArc(m) == TRUE
Admits(m) == rem[m] - 1 = 0

\* for _, m := range g[n]: an arc into a node still in the graph is
\* removed, and the node inserted into S with its last incoming arc.
KahnArc ==
    /\ pc = "kahn_arcs"
    /\ IF Top.k <= Len(g[Top.n]) THEN
          LET m == g[Top.n][Top.k] IN
          /\ IF rem[m] > 0
                THEN /\ rem' = [rem EXCEPT ![m] = @ - 1]
                     /\ S' = IF Admits(m) THEN Append(S, m) ELSE S
                ELSE UNCHANGED <<rem, S>>
          /\ stack' = [stack EXCEPT ![Len(stack)].k = @ + 1]
          /\ UNCHANGED pc
       ELSE
          /\ stack' = <<>>
          /\ pc' = "kahn_main"
          /\ UNCHANGED <<rem, S>>
    /\ UNCHANGED <<g, cyclicVars, fromVars, tr, loopN, L, cycle, ret, topoVars, tarjanVars, condVars, bfsVars>>

\* for c, in := range rem: "recover cyclic nodes", then the return.
KahnRecover ==
    /\ pc = "kahn_recover"
    /\ IF loopN < N THEN
          /\ cycle' = IF /\ rem[loopN] > 0
                         /\ \E j \in 1..Len(g[loopN]) : rem[g[loopN][j]] > 0
                      THEN Append(cycle, loopN)
                      ELSE cycle
          /\ loopN' = loopN + 1
          /\ UNCHANGED <<pc, ret>>
       ELSE
          /\ ret' = IF Len(cycle) > 0
                       THEN [ordering |-> <<>>, cycle |-> cycle]
                       ELSE [ordering |-> L, cycle |-> <<>>]
          /\ pc' = "kahn_done"
          /\ UNCHANGED <<cycle, loopN>>
    /\ UNCHANGED <<g, cyclicVars, fromVars, tr, stack, L, S, rem, topoVars, tarjanVars, condVars, bfsVars>>

KahnNext == KahnScan \/ KahnRemove \/ KahnArc \/ KahnRecover

SpecKahn == KahnInit /\ [][KahnNext]_vars

\* C4: on an acyclic graph TopologicalKahn, given the transpose, returns an
\* empty cycle and an ordering that lists every node exactly once with the
\* source of every arc before its target.
C4_KahnOrdersAcyclic ==
    (pc = "kahn_done" /\ ~HasCycle) =>
        /\ ret.cycle = <<>>
        /\ IsTopologicalOrder(ret.ordering)

\* An acyclic graph with a node of in-degree two and parallel arcs has been
\* ordered.
C4_Witness ==
    /\ pc = "kahn_done" /\ ~HasCycle
    /\ N = 3 /\ g[2] = <<1, 1, 0>> /\ HasArc(1, 0)
    /\ ret.ordering = <<2, 1, 0>>

\* C5: on a graph with a cycle TopologicalKahn returns an empty ordering and
\* a non-empty cycle that is the path of a cycle: consecutive nodes joined
\* by arcs of the graph, the last node joined to the first.
C5_KahnCycleIsPath ==
    (pc = "kahn_done" /\ HasCycle) =>
        /\ ret.ordering = <<>>
        /\ IsCyclePath(ret.cycle)

----------------------------------------------------------------------------
\* Tarjan

TarjanEntry(callers) ==
    /\ GraphInit
    /\ caller \in callers
    /\ pc = "tarjan_loop"
    /\ stack = <<>>
    /\ loopN = 0
    /\ indexed = {}
    /\ stacked = {}
    /\ index = [u \in Nodes |-> 0]
    /\ lowlink = [u \in Nodes |-> 0]
    /\ x = 0
    /\ S = <<>>
    /\ r = <<>>
    /\ declined = FALSE
    /\ cycle = <<>>
    /\ ret = [ordering |-> <<>>, cycle |-> <<>>]
    /\ TopoIdle /\ KahnIdle /\ CondIdle /\ BfsIdle
    /\ CyclicIdle /\ FromIdle

TarjanInit == TarjanEntry({"Tarjan", "TarjanCondensation"})

\* What a call of emit may return.  TarjanForward's closure appends the
\* component to r and returns true; any other callback returns either.
EmitResults == IF caller = "Tarjan" THEN BOOLEAN ELSE {TRUE}

\* sc(n) up to its range loop: n gets the next index and goes on S.
TarjanCall(n) ==
    /\ index' = [index EXCEPT ![n] = x]
    /\ indexed' = indexed \cup {n}
    /\ lowlink' = [lowlink EXCEPT ![n] = x]
    /\ x' = x + 1
    /\ S' = Append(S, n)
    /\ stacked' = stacked \cup {n}
    /\ stack' = Append(stack, Frame(n))
    /\ pc' = "tarjan_sc"

\* The outer loop over the nodes, and the return at its end.
TarjanLoop ==
    /\ pc = "tarjan_loop"
    /\ IF loopN < N THEN
          IF loopN \notin indexed
          THEN TarjanCall(loopN) /\ UNCHANGED loopN
          ELSE /\ loopN' = loopN + 1
               /\ UNCHANGED <<pc, stack, index, indexed, lowlink, x, S, stacked>>
       ELSE
          /\ pc' = "tarjan_returned"
          /\ UNCHANGED <<loopN, stack, index, indexed, lowlink, x, S, stacked>>
    /\ UNCHANGED <<g, cyclicVars, fromVars, caller, r, declined, cycle, ret, topoVars, kahnVars, condVars, bfsVars>>

\* else if stacked.Bit(int(nb.To)) == 1
StackedBitIgnored(nb) == TRUE
StackedBit(nb) == nb \in stacked

\* if a < lowlink[n] { lowlink[n] = a }
KeepFirst(a, b) == a
Min(a, b) == IF a < b THEN a ELSE b

\* One iteration of sc's range loop.
TarjanArc ==
    /\ pc = "tarjan_sc"
    /\ Top.k <= Len(g[Top.n])
    /\ LET nb == g[Top.n][Top.k] IN
       IF nb \notin indexed THEN
          TarjanCall(nb)
       ELSE
          /\ lowlink' = IF StackedBit(nb)
                            THEN [lowlink EXCEPT ![Top.n] = Min(@, index[nb])]
                            ELSE lowlink
          /\ stack' = [stack EXCEPT ![Len(stack)].k = @ + 1]
          /\ UNCHANGED <<pc, index, indexed, x, S, stacked>>
    /\ UNCHANGED <<g, cyclicVars, fromVars, loopN, caller, r, declined, cycle, ret, topoVars, kahnVars, condVars, bfsVars>>

\* The position on S of the node w == n the pop loop stops at.
RootPosition(n) == CHOOSE j \in 1..Len(S) : S[j] = n

\* The component popped off S, last pushed first.
Popped(n) == [j \in 1..(Len(S) - RootPosition(n) + 1) |-> S[Len(S) - j + 1]]

\* if !emit(c) { return false }
EmitResultIgnored(b) == FALSE
EmitDeclines(b) == ~b

\* sc's range loop is exhausted.  A root pops its component and emits it;
\* sc returns true to its caller, which takes the smaller lowlink and goes
\* on to its next arc, or false after emit returned false.
TarjanComponent ==
    /\ pc = "tarjan_sc"
    /\ Top.k > Len(g[Top.n])
    /\ \E b \in (IF lowlink[Top.n] = index[Top.n] THEN EmitResults ELSE {TRUE}) :
          /\ IF lowlink[Top.n] = index[Top.n] THEN
                /\ S' = SubSeq(S, 1, RootPosition(Top.n) - 1)
                /\ stacked' = stacked \ {Popped(Top.n)[j] : j \in 1..Len(Popped(Top.n))}
                /\ r' = Append(r, Popped(Top.n))
                /\ declined' = (declined \/ ~b)
             ELSE UNCHANGED <<S, stacked, r, declined>>
          /\ IF EmitDeclines(b) THEN
                /\ stack' = Pop
                /\ pc' = "tarjan_abort"
                /\ UNCHANGED <<lowlink, loopN>>
             ELSE IF Len(stack) = 1 THEN
                /\ stack' = <<>>
                /\ pc' = "tarjan_loop"
                /\ loopN' = loopN + 1
                /\ UNCHANGED lowlink
             ELSE
                /\ stack' = PopAndStep
                /\ lowlink' = [lowlink EXCEPT
                                  ![stack[Len(stack) - 1].n] = Min(@, lowlink[Top.n])]
                /\ UNCHANGED <<pc, loopN>>
    /\ UNCHANGED <<g, cyclicVars, fromVars, caller, index, indexed, x, cycle, ret, topoVars, kahnVars, condVars, bfsVars>>

\* if !sc(nb.To) { return false }, and the outer loop's return.
TarjanAbort ==
    /\ pc = "tarjan_abort"
    /\ IF stack = <<>>
          THEN pc' = "tarjan_returned" /\ UNCHANGED stack
          ELSE stack' = Pop /\ UNCHANGED pc
    /\ UNCHANGED <<g, cyclicVars, fromVars, loopN, S, cycle, ret, tarjanVars, topoVars, kahnVars, condVars, bfsVars>>

----------------------------------------------------------------------------
\* TarjanForward, TarjanCondensation

\* scc[last-i] = ci, for i, ci := range r
SameOrder(rr) == [c \in 0..(Len(rr) - 1) |-> rr[c + 1]]
Reversed(rr) == [c \in 0..(Len(rr) - 1) |-> rr[Len(rr) - c]]

\* Tarjan has returned to TarjanForward, which returns the components in
\* reverse order to TarjanCondensation; cd and cond are made.
TarjanForward ==
    /\ pc = "tarjan_returned"
    /\ caller = "TarjanCondensation"
    /\ scc' = Reversed(r)
    /\ cd' = [c \in 0..(Len(r) - 1) |-> <<>>]
    /\ cond' = [u \in Nodes |-> 0]
    /\ cn' = Len(r) - 1
    /\ pc' = "cond_loop"
    /\ UNCHANGED <<g, cyclicVars, fromVars, stack, loopN, S, cycle, ret, tarjanVars, topoVars, kahnVars, bfsVars>>

\* The arc targets of the nodes of component c from its j-th node on, in
\* the order the two range loops meet them.
RECURSIVE ArcTargets(_, _)
ArcTargets(c, j) ==
    IF j > Len(c) THEN <<>> ELSE g[c[j]] \o ArcTargets(c, j + 1)

\* m.SetBit(&m, cn, 1): the component itself is marked before its arcs
\* are looked at.
NoneMarked(c) == {}
SelfMarked(c) == {c}

\* tos after the targets from the j-th on: the component of a target is
\* appended unless its bit in m is set.
RECURSIVE Tos(_, _, _, _, _)
Tos(targets, j, cnd, m, tos) ==
    IF j > Len(targets) THEN tos
    ELSE LET ct == cnd[targets[j]] IN
         IF ct \in m
         THEN Tos(targets, j + 1, cnd, m, tos)
         ELSE Tos(targets, j + 1, cnd, m \cup {ct}, Append(tos, ct))

\* One iteration of for cn := len(scc) - 1; cn >= 0; cn--, and the return.
CondComponent ==
    /\ pc = "cond_loop"
    /\ IF cn >= 0 THEN
          /\ cond' = [u \in Nodes |->
                        IF \E j \in 1..Len(scc[cn]) : scc[cn][j] = u
                        THEN cn ELSE cond[u]]
          /\ cd' = [cd EXCEPT ![cn] =
                        Tos(ArcTargets(scc[cn], 1), 1, cond', SelfMarked(cn), <<>>)]
          /\ cn' = cn - 1
          /\ UNCHANGED pc
       ELSE
          /\ pc' = "cond_done"
          /\ UNCHANGED <<cond, cd, cn>>
    /\ UNCHANGED <<g, cyclicVars, fromVars, stack, loopN, S, scc, cycle, ret, tarjanVars, topoVars, kahnVars, bfsVars>>

TarjanNext ==
    \/ TarjanLoop
    \/ TarjanArc
    \/ TarjanComponent
    \/ TarjanAbort
    \/ TarjanForward
    \/ CondComponent

SpecTarjan == TarjanInit /\ [][TarjanNext]_vars

\* The components listed in cs (a sequence of sequences of nodes)
InComponent(cs, c, u) == \E j \in 1..Len(cs[c]) : cs[c][j] = u

\* Each reaches the other by a directed path (of no arcs from a node to
\* itself).
StronglyConnected(u, w) == u = w \/ (Reaches(u, w) /\ Reaches(w, u))

\* cs, indexed by ix, holds every node exactly once, and two nodes share a
\* component iff they are strongly connected.
IsSCCPartition(cs, ix) ==
    /\ \A u \in Nodes :
          Cardinality({p \in {<<c, j>> : c \in ix, j \in 1..N} :
                          p[2] <= Len(cs[p[1]]) /\ cs[p[1]][p[2]] = u}) = 1
    /\ \A c \in ix : Len(cs[c]) <= N
    /\ \A u \in Nodes, w \in Nodes :
          (\E c \in ix : InComponent(cs, c, u) /\ InComponent(cs, c, w))
              <=> StronglyConnected(u, w)

\* C6: when emit never returns false, the components Tarjan has emitted
\* when it returns, and those TarjanForward returns, hold every node
\* exactly once, and two nodes share a component iff each reaches the other.
C6_ComponentsPartitionIntoSCCs ==
    /\ (pc = "tarjan_returned" /\ ~declined) => IsSCCPartition(r, DOMAIN r)
    /\ (pc = "cond_loop" /\ cn = Len(r) - 1) => IsSCCPartition(scc, DOMAIN scc)

\* Tarjan has returned two components, the one of two nodes entered from
\* node 0 by an arc.
C6_Witness ==
    /\ pc = "tarjan_returned" /\ ~declined
    /\ N = 3 /\ Len(r) = 2
    /\ \E c \in DOMAIN r : Len(r[c]) = 2 /\ InComponent(r, c, 2)
    /\ HasArc(0, 1)

\* The position of the component of u in the emission order, and in scc.
EmitPosition(u) == CHOOSE c \in DOMAIN r : InComponent(r, c, u)
ComponentIndex(u) == CHOOSE c \in DOMAIN scc : InComponent(scc, c, u)

\* C7: Tarjan emits components in reverse topological order of the
\* condensation: the component of the target of an arc between components
\* is emitted before the component of its source; in scc and cd every such
\* arc, and every arc of cd, goes from a lower index to a higher one.
C7_ReverseTopologicalEmission ==
    /\ (pc = "tarjan_returned" /\ ~declined) =>
          \A u \in Nodes, w \in Nodes :
              (HasArc(u, w) /\ EmitPosition(u) # EmitPosition(w))
                  => EmitPosition(w) < EmitPosition(u)
    /\ pc = "cond_done" =>
          /\ \A u \in Nodes, w \in Nodes :
                (HasArc(u, w) /\ ComponentIndex(u) # ComponentIndex(w))
                    => ComponentIndex(u) < ComponentIndex(w)
          /\ \A c \in DOMAIN cd : \A j \in 1..Len(cd[c]) : c < cd[c][j]

\* Three components in a chain with a shortcut have been condensed.
C7_Witness ==
    /\ pc = "cond_done"
    /\ r = <<(<<2>>), (<<1>>), (<<0>>)>>
    /\ cd = (0 :> <<2, 1>> @@ 1 :> <<2>> @@ 2 :> <<>>)

\* No node is in two of the components of cs, or twice in one.
PairwiseDisjoint(cs) ==
    \A c \in DOMAIN cs, d \in DOMAIN cs :
        \A j \in 1..Len(cs[c]), k \in 1..Len(cs[d]) :
            cs[c][j] = cs[d][k] => (c = d /\ j = k)

\* Tarjan called with a callback of the caller's own, which returns either
\* value.  The call is synchronous: it runs on until it returns.
TarjanEmitNext == TarjanLoop \/ TarjanArc \/ TarjanComponent \/ TarjanAbort

TarjanEmitInit == TarjanEntry({"Tarjan"})

SpecTarjanEmit ==
    TarjanEmitInit /\ [][TarjanEmitNext]_vars /\ WF_vars(TarjanEmitNext)

\* C8: once emit has returned false, emit is not called again, no node
\* gets a discovery index, every step returns from one activation of sc,
\* and Tarjan returns; the components emitted are pairwise disjoint.
C8_EmitFalseAborts ==
    /\ [][declined =>
             /\ r' = r
             /\ indexed' = indexed /\ index' = index /\ x' = x
             /\ \/ pc' = "tarjan_abort" /\ Len(stack') < Len(stack)
                \/ pc' = "tarjan_returned"]_vars
    /\ [](declined => pc \in {"tarjan_abort", "tarjan_returned"})
    /\ (declined ~> pc = "tarjan_returned")
    /\ [](PairwiseDisjoint(r))

\* Tarjan has returned after emit declined the first component, found two
\* activations deep, leaving one node on S and one without an index.
C8_Witness ==
    /\ pc = "tarjan_returned" /\ declined
    /\ N = 3 /\ r = <<(<<1>>)>>
    /\ S = <<0>> /\ indexed = {0, 1}

\* C9: TarjanCondensation returns cd with one node per component, an arc
\* from component c to component d iff c # d and some arc of g goes from
\* a node of c to a node of d, and no arc twice.
C9_CondensationArcs ==
    pc = "cond_done" =>
        /\ DOMAIN cd = DOMAIN scc
        /\ \A c \in DOMAIN cd, d \in DOMAIN cd :
              (\E j \in 1..Len(cd[c]) : cd[c][j] = d)
                  <=> /\ c # d
                      /\ \E u \in Nodes, w \in Nodes :
                            /\ InComponent(scc, c, u)
                            /\ InComponent(scc, d, w)
                            /\ HasArc(u, w)
        /\ \A c \in DOMAIN cd : \A j \in 1..Len(cd[c]), k \in 1..Len(cd[c]) :
              cd[c][j] = cd[c][k] => j = k

\* A component of two nodes with arcs inside it and two arcs into the
\* same other component has been condensed to a single arc.
C9_Witness ==
    /\ pc = "cond_done"
    /\ N = 3 /\ HasArc(0, 1) /\ HasArc(1, 0) /\ HasArc(0, 2) /\ HasArc(1, 2)
    /\ cd = (0 :> <<1>> @@ 1 :> <<>>)

----------------------------------------------------------------------------
\* BreadthFirstTraverse

BfsInit ==
    /\ GraphInit
    /\ start \in Nodes
    /\ pc = "bfs_start"
    /\ v = {}
    /\ frontier = <<>>
    /\ next = <<>>
    /\ fpos = 0
    /\ apos = 0
    /\ visits = <<>>
    /\ stack = <<>> /\ loopN = 0 /\ S = <<>> /\ cycle = <<>>
    /\ ret = [ordering |-> <<>>, cycle |-> <<>>]
    /\ TopoIdle /\ KahnIdle /\ TarjanIdle /\ CondIdle
    /\ CyclicIdle /\ FromIdle

\* Up to the first test of len(frontier) > 0: start is marked and visited.
BfsStart ==
    /\ pc = "bfs_start"
    /\ v' = {start}
    /\ visits' = <<start>>
    /\ next' = <<>>
    /\ frontier' = <<start>>
    /\ fpos' = 1
    /\ apos' = 1
    /\ pc' = "bfs_frontier"
    /\ UNCHANGED <<g, cyclicVars, fromVars, start, stack, loopN, S, cycle, ret,
                   topoVars, kahnVars, tarjanVars, condVars>>

\* if w.Bit(int(nb)) == 0
BitIgnored(nb) == TRUE
BitClear(nb) == nb \notin v

\* One iteration of for _, nb := range g[n], or the step of the loop over
\* the frontier to its next node.
BfsArc ==
    /\ pc = "bfs_frontier"
    /\ fpos <= Len(frontier)
    /\ IF apos <= Len(g[frontier[fpos]]) THEN
          LET nb == g[frontier[fpos]][apos] IN
          /\ IF BitClear(nb)
                THEN /\ v' = v \cup {nb}
                     /\ visits' = Append(visits, nb)
                     /\ next' = Append(next, nb)
                ELSE UNCHANGED <<v, visits, next>>
          /\ apos' = apos + 1
          /\ UNCHANGED fpos
       ELSE
          /\ fpos' = fpos + 1
          /\ apos' = 1
          /\ UNCHANGED <<v, visits, next>>
    /\ UNCHANGED <<g, cyclicVars, fromVars, start, pc, frontier, stack, loopN, S, cycle, ret,
                   topoVars, kahnVars, tarjanVars, condVars>>

\* frontier, next = next, frontier[:0], and the test of len(frontier) > 0.
\* The two slices never share an array: each append to next writes the
\* array of the frontier before last, or a fresh one.
BfsSwap ==
    /\ pc = "bfs_frontier"
    /\ fpos > Len(frontier)
    /\ frontier' = next
    /\ next' = <<>>
    /\ fpos' = 1
    /\ apos' = 1
    /\ pc' = IF Len(next) > 0 THEN "bfs_frontier" ELSE "bfs_done"
    /\ UNCHANGED <<g, cyclicVars, fromVars, start, v, visits, stack, loopN, S, cycle, ret,
                   topoVars, kahnVars, tarjanVars, condVars>>

BfsNext == BfsStart \/ BfsArc \/ BfsSwap

SpecBreadthFirst == BfsInit /\ [][BfsNext]_vars

\* The hop distance from start of every node reached from it: level is the
\* set of nodes at distance k, seen the set of nodes closer than that.
RECURSIVE DistanceFrom(_, _, _)
DistanceFrom(seen, level, k) ==
    IF level = {} THEN <<>>
    ELSE [u \in level |-> k]
         @@ DistanceFrom(seen \cup level, Succ(level) \ (seen \cup level), k + 1)

----------------------------------------------------------------------------
\* FromList

FromInit ==
    /\ GraphInit
    /\ pc = "from_make"
    /\ stack = <<>>
    /\ loopN = 0
    /\ paths = <<>>
    /\ flRet = [nil |-> TRUE, Paths |-> <<>>, n |-> 0]
    /\ S = <<>> /\ cycle = <<>>
    /\ ret = [ordering |-> <<>>, cycle |-> <<>>]
    /\ TopoIdle /\ KahnIdle /\ TarjanIdle /\ CondIdle /\ BfsIdle /\ CyclicIdle

\* paths := make([]PathEnd, len(g)), and From = -1 in each.
FromMake ==
    /\ pc = "from_make"
    /\ paths' = [u \in Nodes |-> -1]
    /\ pc' = "from_scan"
    /\ UNCHANGED <<g, stack, loopN, flRet, S, cycle, ret,
                   topoVars, kahnVars, tarjanVars, condVars, bfsVars, cyclicVars>>

\* for fr, to := range g: the next node's arc list, or the return of the
\* FromList and -1 after the last.
FromNode ==
    /\ pc = "from_scan"
    /\ IF loopN < N THEN
          /\ stack' = <<Frame(loopN)>>
          /\ pc' = "from_arcs"
          /\ UNCHANGED flRet
       ELSE
          /\ flRet' = [nil |-> FALSE, Paths |-> paths, n |-> -1]
          /\ pc' = "from_done"
          /\ UNCHANGED stack
    /\ UNCHANGED <<g, loopN, paths, S, cycle, ret,
                   topoVars, kahnVars, tarjanVars, condVars, bfsVars, cyclicVars>>

\* if paths[to.To].From >= 0
HasParentAboveZero(t) == paths[t] > 0
HasParent(t) == paths[t] >= 0

\* paths[to.To].From = NI(fr)
RecordedTarget(f, t) == t
RecordedParent(f, t) == f

\* One iteration of for _, to := range to: the arc's target gets its source
\* as parent, or is returned with nil when it has one; after the last arc
\* the outer loop goes on.
FromArc ==
    /\ pc = "from_arcs"
    /\ IF Top.k <= Len(g[Top.n]) THEN
          LET t == g[Top.n][Top.k] IN
          IF HasParent(t) THEN
             /\ flRet' = [nil |-> TRUE, Paths |-> <<>>, n |-> t]
             /\ pc' = "from_done"
             /\ stack' = <<>>
             /\ UNCHANGED <<paths, loopN>>
          ELSE
             /\ paths' = [paths EXCEPT ![t] = RecordedParent(Top.n, t)]
             /\ stack' = [stack EXCEPT ![Len(stack)].k = @ + 1]
             /\ UNCHANGED <<pc, flRet, loopN>>
       ELSE
          /\ stack' = <<>>
          /\ loopN' = loopN + 1
          /\ pc' = "from_scan"
          /\ UNCHANGED <<paths, flRet>>
    /\ UNCHANGED <<g, S, cycle, ret,
                   topoVars, kahnVars, tarjanVars, condVars, bfsVars, cyclicVars>>

FromNext == FromMake \/ FromNode \/ FromArc

SpecFromList == FromInit /\ [][FromNext]_vars

\* The arcs of nodes u and above as <<source, target>>, by source node
\* index and arc-list order.
RECURSIVE ArcsFromNode(_)
ArcsFromNode(u) ==
    IF u >= N THEN <<>>
    ELSE [j \in 1..Len(g[u]) |-> <<u, g[u][j]>>] \o ArcsFromNode(u + 1)

\* ind[nb.To]++ for every arc: the number of arcs into w.
InDegree(w) ==
    LET arcs == ArcsFromNode(0) IN Cardinality({j \in 1..Len(arcs) : arcs[j][2] = w})

\* The first arc in scan order whose target is the target of an earlier arc.
FirstRepeatedTarget ==
    LET arcs == ArcsFromNode(0)
        repeats(j) == \E a \in 1..(j - 1) : arcs[a][2] = arcs[j][2]
        first == CHOOSE j \in 1..Len(arcs) :
                     repeats(j) /\ \A b \in 1..(j - 1) : ~repeats(b)
    IN arcs[first][2]

\* C11: if some node has two or more incoming arcs FromList returns nil and
\* the target of the first arc, by source node index and arc-list order,
\* whose target is the target of an earlier arc; otherwise it returns a
\* FromList and -1, with From the source of its only incoming arc for a
\* node that has one and -1 for every other node.
C11_FromListFirstConflictOrParents ==
    pc = "from_done" =>
        IF \E u \in Nodes : InDegree(u) >= 2
        THEN flRet.nil /\ flRet.n = FirstRepeatedTarget
        ELSE /\ ~flRet.nil /\ flRet.n = -1
             /\ DOMAIN flRet.Paths = Nodes
             /\ \A u \in Nodes :
                   IF InDegree(u) = 0
                   THEN flRet.Paths[u] = -1
                   ELSE /\ flRet.Paths[u] \in Nodes
                        /\ \A w \in Nodes : HasArc(w, u) <=> w = flRet.Paths[u]

\* FromList has returned nil and node 2, the target of the third arc, for
\* a graph in which node 1 too has two incoming arcs, the second of them
\* scanned last.
C11_Witness ==
    /\ pc = "from_done"
    /\ flRet.nil /\ flRet.n = 2
    /\ N = 3 /\ g[0] = <<1, 2>> /\ g[1] = <<2>> /\ g[2] = <<1>>

----------------------------------------------------------------------------
\* Cyclic

\* fr, to.To = -1, -1; var temp, perm big.Int
CyclicInit ==
    /\ GraphInit
    /\ pc = "cyclic_loop"
    /\ stack = <<>>
    /\ loopN = 0
    /\ cyclic = FALSE
    /\ fr = -1
    /\ to = -1
    /\ temp = {}
    /\ perm = {}
    /\ ordering = <<>> /\ i = 0 /\ cycleFound = FALSE /\ cycleStart = 0
    /\ S = <<>> /\ cycle = <<>>
    /\ ret = [ordering |-> <<>>, cycle |-> <<>>]
    /\ KahnIdle /\ TarjanIdle /\ CondIdle /\ BfsIdle /\ FromIdle

\* if cyclic, tested by the caller of df when df comes back: by an
\* enclosing df after df(nb.To), by the outer loop after df(NI(n)).
CyclicTestSkipped == FALSE
CyclicTest == cyclic'

\* df has come back to the innermost activation of callers, or to the outer
\* loop: with cyclic set the caller returns or breaks in its turn, otherwise
\* it goes on to its next arc, the outer loop to its next node.
CyclicBack(callers) ==
    IF CyclicTest THEN
        /\ pc' = "cyclic_unwind"
        /\ stack' = callers
        /\ UNCHANGED loopN
    ELSE IF callers = <<>> THEN
        /\ pc' = "cyclic_loop"
        /\ stack' = <<>>
        /\ loopN' = loopN + 1
    ELSE
        /\ pc' = "cyclic_df"
        /\ stack' = [callers EXCEPT ![Len(callers)].k = @ + 1]
        /\ UNCHANGED loopN

\* df(n) up to its range loop: the switch and the temp mark.  Called with
\* the caller's frame (if any) on top of the stack.
CyclicCall(n) ==
    IF n \in temp THEN
        /\ cyclic' = TRUE
        /\ CyclicBack(stack)
        /\ UNCHANGED temp
    ELSE IF n \in perm THEN
        /\ UNCHANGED <<cyclic, temp>>
        /\ CyclicBack(stack)
    ELSE
        /\ temp' = temp \cup {n}
        /\ stack' = Append(stack, Frame(n))
        /\ pc' = "cyclic_df"
        /\ UNCHANGED <<cyclic, loopN>>

\* The outer loop over the nodes, and the return at its end.
CyclicLoop ==
    /\ pc = "cyclic_loop"
    /\ IF loopN >= N THEN
          /\ pc' = "cyclic_done"
          /\ UNCHANGED <<stack, loopN, temp, cyclic>>
       ELSE IF loopN \in perm THEN
          /\ loopN' = loopN + 1
          /\ UNCHANGED <<pc, stack, temp, cyclic>>
       ELSE
          CyclicCall(loopN)
    /\ UNCHANGED <<g, perm, fr, to, ordering, i, cycleFound, cycleStart, S, cycle, ret,
                   kahnVars, tarjanVars, condVars, bfsVars, fromVars>>

\* One iteration of df's range loop: df(nb.To).
CyclicArc ==
    /\ pc = "cyclic_df"
    /\ Top.k <= Len(g[Top.n])
    /\ CyclicCall(g[Top.n][Top.k])
    /\ UNCHANGED <<g, perm, fr, to, ordering, i, cycleFound, cycleStart, S, cycle, ret,
                   kahnVars, tarjanVars, condVars, bfsVars, fromVars>>

\* df's range loop is exhausted: the node is done.
CyclicFinish ==
    /\ pc = "cyclic_df"
    /\ Top.k > Len(g[Top.n])
    /\ temp' = temp \ {Top.n}
    /\ perm' = perm \cup {Top.n}
    /\ UNCHANGED cyclic
    /\ CyclicBack(Pop)
    /\ UNCHANGED <<g, fr, to, ordering, i, cycleFound, cycleStart, S, cycle, ret,
                   kahnVars, tarjanVars, condVars, bfsVars, fromVars>>

\* if fr < 0
ArcAlwaysTaken == TRUE
ArcNotYetTaken == fr < 0

\* df(nb.To) came back with cyclic set: the first activation it comes back
\* to sets fr and to, and every activation returns; the outer loop breaks
\* and Cyclic returns.
CyclicUnwind ==
    /\ pc = "cyclic_unwind"
    /\ IF stack = <<>> THEN
          /\ pc' = "cyclic_done"
          /\ UNCHANGED <<stack, fr, to>>
       ELSE
          /\ IF ArcNotYetTaken
                THEN fr' = Top.n /\ to' = g[Top.n][Top.k]
                ELSE UNCHANGED <<fr, to>>
          /\ stack' = Pop
          /\ UNCHANGED pc
    /\ UNCHANGED <<g, loopN, temp, perm, cyclic, ordering, i, cycleFound, cycleStart,
                   S, cycle, ret, kahnVars, tarjanVars, condVars, bfsVars, fromVars>>

CyclicNext == CyclicLoop \/ CyclicArc \/ CyclicFinish \/ CyclicUnwind

SpecCyclic == CyclicInit /\ [][CyclicNext]_vars

\* C12: Cyclic returns true iff the graph has a cycle, self-loops included;
\* with true, fr and to are the ends of an arc of the graph that lies on a
\* cycle (its target is its source or reaches it); with false, fr and
\* to.To are both -1.
C12_CyclicIffCycleWithArcOnIt ==
    pc = "cyclic_done" =>
        /\ cyclic <=> HasCycle
        /\ cyclic =>
              /\ fr \in Nodes /\ to \in Nodes
              /\ HasArc(fr, to)
              /\ (to = fr \/ Reaches(to, fr))
        /\ ~cyclic => (fr = -1 /\ to = -1)

\* Cyclic has returned true and the arc 2->1 for a graph whose cycle through
\* 1 and 2 is entered from node 0, which is on no cycle.
C12_Witness ==
    /\ pc = "cyclic_done" /\ cyclic
    /\ N = 3 /\ HasArc(0, 1) /\ ~Reaches(0, 0)
    /\ fr = 2 /\ to = 1

----------------------------------------------------------------------------
\* Singleton components of Tarjan

\* u has no arc out and no arc in.
Isolated(u) == Len(g[u]) = 0 /\ InDegree(u) = 0

\* u shares a cycle with another node.
OnLongerCycle(u) == \E w \in Nodes \ {u} : Reaches(u, w) /\ Reaches(w, u)

Singleton(cs, u) == \E c \in DOMAIN cs : cs[c] = <<u>>

\* C13 as stated: a component of one node emitted by Tarjan is a node on no
\* cycle at all, so never a node with a self-loop; isolated nodes are
\* emitted as components of one node.
C13_SingletonsOnNoCycle ==
    pc = "tarjan_returned" =>
        /\ \A u \in Nodes : Singleton(r, u) => ~Reaches(u, u)
        /\ ~declined => \A u \in Nodes : Isolated(u) => Singleton(r, u)

\* C13 amended: a component of one node emitted by Tarjan is a node that
\* shares no cycle with another node; it may carry a self-loop, and when
\* emit never returns false every node that shares no cycle with another
\* node, with or without self-loop and isolated nodes included, is emitted
\* as a component of one node.
C13_SingletonsOnNoLongerCycle ==
    pc = "tarjan_returned" =>
        /\ \A u \in Nodes : Singleton(r, u) => ~OnLongerCycle(u)
        /\ ~declined =>
              /\ \A u \in Nodes : ~OnLongerCycle(u) => Singleton(r, u)
              /\ \A u \in Nodes : Isolated(u) => Singleton(r, u)

\* Tarjan has returned three components of one node: node 1 with a
\* self-loop, node 0 with an arc to it, and the isolated node 2.
C13_Witness ==
    /\ pc = "tarjan_returned" /\ ~declined
    /\ N = 3 /\ HasArc(1, 1) /\ HasArc(0, 1) /\ Isolated(2)
    /\ r = <<(<<1>>), (<<0>>), (<<2>>)>>

----------------------------------------------------------------------------
\* The depth-first searches of Topological and Cyclic

DepthFirstInit == TopoInit \/ CyclicInit

DepthFirstNext == TopoNext \/ CyclicNext

SpecDepthFirst == DepthFirstInit /\ [][DepthFirstNext]_vars

\* A node with its temp bit set has been met again.
Found == cycleFound \/ cyclic

\* The nodes of the activations of df.
RecursionPath == {stack[j].n : j \in 1..Len(stack)}

\* C14: in Topological and in Cyclic, from the step that sets cycleFound
\* (cyclic) on, the flag stays set, no temp or perm bit changes, the outer
\* loop starts no further root, and no activation of df is started or moves
\* to another arc: each step returns from one activation or from the
\* function.  While the flag is not set, no node has both its temp and its
\* perm bit set, and the nodes with the temp bit set are exactly the nodes
\* of the activations of df.
C14_DetectionShortCircuits ==
    /\ [][Found' =>
             /\ temp' = temp /\ perm' = perm
             /\ loopN' = loopN
             /\ (stack' = stack \/ stack' = Pop)]_vars
    /\ [][Found => Found']_vars
    /\ [](Found => pc \in {"topo_unwind", "topo_done", "cyclic_unwind", "cyclic_done"})
    /\ [](~Found => (temp \cap perm = {} /\ temp = RecursionPath))

\* Topological has returned after it found the cycle through 0 and 1 on
\* the first arc of node 0: both keep their temp bit, and node 2, the
\* target of the second arc of node 0, was never entered.
C14_Witness ==
    /\ pc = "topo_done" /\ cycleFound
    /\ N = 3 /\ g[0] = <<1, 2>> /\ HasArc(1, 0)
    /\ temp = {0, 1} /\ perm = {} /\ stack = <<>> /\ loopN = 0

----------------------------------------------------------------------------
\* The forest of a FromList

\* Following From from u in the parent records p meets a node with
\* From = -1 within the given number of steps.
RECURSIVE ReachesRoot(_, _, _)
ReachesRoot(p, u, steps) ==
    IF p[u] = -1 THEN TRUE
    ELSE IF steps = 0 THEN FALSE
    ELSE ReachesRoot(p, p[u], steps - 1)

AcyclicForest(p) == \A u \in DOMAIN p : ReachesRoot(p, u, N)

\* C15 as stated: whenever FromList returns a FromList and -1, following
\* From from any node reaches a node with From = -1 within N steps.
C15_SuccessIsAcyclicForest ==
    (pc = "from_done" /\ ~flRet.nil) => AcyclicForest(flRet.Paths)

\* C15 amended: whenever FromList returns a FromList and -1, following From
\* from any node reaches a node with From = -1 within N steps if and only
\* if the graph has no cycle; on a graph with a cycle and no node with two
\* incoming arcs it also returns a FromList and -1, in which From leads
\* around the cycle.
C15_SuccessIsAcyclicForestIffNoCycle ==
    (pc = "from_done" /\ ~flRet.nil) =>
        /\ flRet.n = -1
        /\ AcyclicForest(flRet.Paths) <=> ~HasCycle

\* FromList has returned the parents of a chain 2 -> 1 -> 0: two steps lead
\* from node 0 to the root.
C15_Witness ==
    /\ pc = "from_done" /\ ~flRet.nil
    /\ ~HasCycle /\ N = 3
    /\ flRet.Paths = (0 :> 1 @@ 1 :> 2 @@ 2 :> -1)

====
